---- MODULE Spec2Model ----
(***************************************************************************)
(* Model of TelloClient (src/src/main/TelloClient.ts): the command queue   *)
(* (#enqueue / #next / #sendCommand / emergency / connect / disconnect)    *)
(* and the MJPEG frame splitter of startFfmpegDecoder.                     *)
(*                                                                         *)
(* Granularity.  Node runs one callback at a time, so a step of the model  *)
(* is one synchronous block of the client together with the promise        *)
(* continuations (microtasks) of the client that it triggers.  The points  *)
(* where other calls can come in between are kept as separate steps:       *)
(*   - the body of the first loop iteration of #sendCommand runs in a      *)
(*     microtask (for await), after the caller's synchronous code;         *)
(*   - the continuation after a rejected "not connected" promise;          *)
(*   - the reply wait (message / timer / send callback);                   *)
(*   - the 400 ms backoff timer.                                           *)
(* Timers carry no durations: any order of timer expiries is allowed.      *)
(*                                                                         *)
(* Specifications.  Spec, QueueSpec, OverlapSpec and MoveSpec drive the    *)
(* dispatcher (MoveSpec with the movement methods as well); ClassifySpec   *)
(* is the connect handshake with the drone's reply drawn from a set of     *)
(* datagrams; FrameSpec and TripSpec feed the 'data' handler of the        *)
(* decoder; StreamSpec adds the decoder's exit and one streamFrames()      *)
(* generator with its consumer; VideoSpec drives the dispatcher with       *)
(* startVideo(), stopVideo(), startFfmpegDecoder() and the exits of the    *)
(* decoder processes.                                                      *)
(***************************************************************************)
EXTENDS Integers, Sequences, FiniteSets, TLC

\* ------------------------------------------------------------------ bounds
\* Spec: calls of command methods (takeoff(), land(), ...) made on the client
MaxCalls == 2
\* Spec: calls of emergency() made on the client
MaxEmergencies == 1
\* Spec: failed attempts (timeouts, send errors, non-success replies) the
\* environment injects in one run
MaxFaults == 3
\* QueueSpec: the same three bounds, with more calls and fewer failures
QueueCalls == 3
QueueEmergencies == 1
QueueFaults == 1

\* OverlapSpec: the same three bounds, with emergency() calls that overlap
OverlapCalls == 1
OverlapEmergencies == 2
OverlapFaults == 1
\* MoveSpec: the three bounds of Spec, and the calls of movement methods that
\* fail their validation
MoveCalls == 1
MoveEmergencies == 1
MoveFaults == 1
MaxInvalid == 1

\* StreamSpec: items of the stream the decoder writes while streamFrames()
\* is consumed
MaxShow == 8
\* ClassifySpec: whitespace bytes on either side of a reply, and the failed
\* attempts of the run
MaxPad == 1
ClassifyFaults == 3

\* FrameSpec: items of the decoder's output stream
MaxStream == 6
\* TripSpec: items of a stream made of whole frames back to back
MaxTrip == 10
\* VideoSpec: calls of startVideo() and stopVideo() that reach #enqueue,
\* emergency() calls, failed attempts, decoder processes spawned
VideoCalls == 2
VideoEmergencies == 1
VideoFaults == 1
MaxProcesses == 3

\* ------------------------------------------------------- program constants
\* #sendCommand(cmd, timeout = 5000, maxRetries = 3)
maxRetries == 3
\* if (buffer.length > 5_000_000) buffer = Buffer.alloc(0)
Ceiling == 5000000

VARIABLES
    isConnected,    \* private isConnected
    socketClosed,   \* commandSocket.close() has been called
    commandQueue,   \* #commandQueue: sequence of task ids
    isExecuting,    \* #isExecuting
    isEmergency,    \* #isEmergency
    listeners,      \* live once('message') handlers of commandSocket, in
                    \* registration order, named by the call they belong to
    microtasks,     \* calls whose promise continuation is queued, oldest first
    call,           \* per call: the task/promise and its #sendCommand loop
    nCalls,         \* command methods called so far
    nEmergencies,   \* emergency() calls made so far
    faults,         \* failed attempts injected so far
    validationErrors, \* ValidationErrors thrown by movement methods so far
    datagram,       \* ClassifySpec: the bytes of the datagram the drone replies
    gen,            \* the async generator of one streamFrames() call
    videoConnected, \* videoConnected
    processes,      \* the decoder processes spawned so far, in order: each
                    \* "running", "killed" (signalled, its exit still to
                    \* come) or "exited"
    ffmpegProcess,  \* 0 = undefined, else the decoder process it refers to
    ffmpegEnabled,  \* ffmpegEnabled
    stream,         \* what the decoder process writes to stdout in the run
    sent,           \* the frames a synthetic stream was made of, in order
    fed,            \* how much of it the 'data' handler has been given
    chunks,         \* 'data' events so far
    buffer,         \* let buffer of startFfmpegDecoder
    frames          \* the 'frame' events emitted, in order

dispatchVars ==
    <<isConnected, socketClosed, commandQueue, isExecuting, isEmergency,
      listeners, microtasks, call, nCalls, nEmergencies, faults,
      videoConnected, processes, ffmpegProcess, ffmpegEnabled>>

frameVars == <<stream, sent, fed, chunks, buffer, frames>>

vars == <<dispatchVars, frameVars, validationErrors, datagram, gen>>

Max(a, b) == IF a > b THEN a ELSE b

\* call 0 is the 'command' task of connect(), 1..NumCommands are the command
\* methods' tasks, the calls after them are the emergency() calls
NumCommands ==
    Max(Max(Max(MaxCalls, QueueCalls), Max(MoveCalls, OverlapCalls)), VideoCalls)
NumEmergencies ==
    Max(Max(Max(MaxEmergencies, QueueEmergencies),
            Max(MoveEmergencies, OverlapEmergencies)), VideoEmergencies)
Calls == 0..(NumCommands + NumEmergencies)

\* ------------------------------------------------------------ reply text
\* A reply is a sequence of characters.
Whitespace == {" ", "\n"}

RECURSIVE TrimLeft(_)
TrimLeft(str) ==
    IF str # <<>> /\ Head(str) \in Whitespace THEN TrimLeft(Tail(str)) ELSE str

RECURSIVE TrimRight(_)
TrimRight(str) ==
    IF str # <<>> /\ str[Len(str)] \in Whitespace
    THEN TrimRight(SubSeq(str, 1, Len(str) - 1)) ELSE str

\* String.prototype.trim
trim(str) == TrimRight(TrimLeft(str))

LowerOf(c) ==
    CASE c = "E" -> "e" [] c = "R" -> "r" [] c = "O" -> "o" [] c = "K" -> "k"
      [] OTHER -> c

\* String.prototype.toLowerCase
toLowerCase(str) == [i \in 1..Len(str) |-> LowerOf(str[i])]

ErrorToken == <<"e", "r", "r", "o", "r">>

\* handler: isOk = str.toLowerCase() !== 'error' && str.trim().length > 0,
\* with str = msg.toString('utf8').trim()
isOk(msg) ==
    LET str == trim(msg)
    IN toLowerCase(str) # ErrorToken /\ Len(trim(str)) > 0

\* handler: res({ success: isOk, message: str })
Response(msg) == [success |-> isOk(msg), message |-> trim(msg)]

\* replies the drone sends in the dispatch model
Replies == { <<"o", "k">>, <<"e", "r", "r", "o", "r">>, <<>> }

\* ------------------------------------------------------------- the state
NoCall ==
    [cmd |-> "none", promise |-> "none", value |-> "none", settles |-> 0,
     phase |-> "idle", attempt |-> 0, sends |-> 0, backoffs |-> 0,
     last |-> "none", timeouts |-> 0, cleared |-> "none",
     ahead |-> {}, running |-> {}]

\* the client's dispatch state as one record, for the sequential code below
State ==
    [isConnected |-> isConnected, socketClosed |-> socketClosed,
     commandQueue |-> commandQueue, isExecuting |-> isExecuting,
     isEmergency |-> isEmergency, listeners |-> listeners,
     microtasks |-> microtasks, call |-> call,
     videoConnected |-> videoConnected, processes |-> processes,
     ffmpegProcess |-> ffmpegProcess, ffmpegEnabled |-> ffmpegEnabled]

Commit(n) ==
    /\ isConnected' = n.isConnected
    /\ socketClosed' = n.socketClosed
    /\ commandQueue' = n.commandQueue
    /\ isExecuting' = n.isExecuting
    /\ isEmergency' = n.isEmergency
    /\ listeners' = n.listeners
    /\ microtasks' = n.microtasks
    /\ call' = n.call
    /\ videoConnected' = n.videoConnected
    /\ processes' = n.processes
    /\ ffmpegProcess' = n.ffmpegProcess
    /\ ffmpegEnabled' = n.ffmpegEnabled
    /\ UNCHANGED <<frameVars, validationErrors, datagram, gen>>

Range(seq) == {seq[i] : i \in 1..Len(seq)}

Remove(seq, x) == SelectSeq(seq, LAMBDA y : y # x)

\* calls whose #sendCommand loop has been started and has not finished
Running(s) == {t \in Calls : s.call[t].phase \in {"notconn", "start", "wait", "backoff"}}

\* ------------------------------------------------------ the client's code
\* #stopFfmpeg.  ffmpegProcess never refers to a killed process (the
\* reference is dropped with the kill), and kill() on a process that has
\* exited sends nothing.
stopFfmpeg(s) ==
    IF s.ffmpegProcess # 0
    THEN [s EXCEPT !.processes[s.ffmpegProcess] =
                       IF @ = "running" THEN "killed" ELSE @,
                   !.ffmpegProcess = 0,
                   !.ffmpegEnabled = FALSE]
    ELSE s

\* #sendCommand, up to its return: a rejected promise when not connected,
\* else the promise whose executor suspends at `for await` before the first
\* iteration
sendCommand(s, t) ==
    IF ~s.isConnected
    THEN [s EXCEPT !.call[t].phase = "notconn", !.microtasks = Append(@, t)]
    ELSE [s EXCEPT !.call[t].phase = "start", !.microtasks = Append(@, t)]

\* #next, up to the await: the guard, the shift and the call of #sendCommand
next(s) ==
    IF s.isExecuting \/ Len(s.commandQueue) = 0 \/ s.isEmergency
    THEN s
    ELSE sendCommand([s EXCEPT !.isExecuting = TRUE,
                               !.commandQueue = Tail(s.commandQueue)],
                     Head(s.commandQueue))

\* resolve(x) / reject(e) of the promise returned to the caller: only the
\* first call settles a promise
settle(s, t, kind, value) ==
    [s EXCEPT !.call[t].settles = @ + 1,
              !.call[t].promise = IF @ = "pending" THEN kind ELSE @,
              !.call[t].value = IF s.call[t].promise = "pending" THEN value ELSE @]

\* #next after the await, with a finally block that does not call #next()
nextSettledAndStops(s, t, kind, value) ==
    [settle(s, t, kind, value) EXCEPT !.isExecuting = FALSE]

\* startVideo() after the await: emit('video-start'), videoConnected = true
startVideoResumed(s) == [s EXCEPT !.videoConnected = TRUE]

\* stopVideo() after the await: emit('video-stop'), #stopFfmpeg()
stopVideoResumed(s) == stopFfmpeg(s)

\* the caller of #enqueue continues when the task's promise has settled:
\* startVideo() and stopVideo() go on after a result and are left by the
\* throw after a rejection; the other command methods return what they get
enqueueSettled(s, t, kind) ==
    IF kind = "resolved" /\ s.call[t].cmd = "streamon" THEN startVideoResumed(s)
    ELSE IF kind = "resolved" /\ s.call[t].cmd = "streamoff" THEN stopVideoResumed(s)
    ELSE s

\* #next after the await: resolve(result) or reject(err), then finally; the
\* continuation of the caller of #enqueue is the next microtask
nextSettled(s, t, kind, value) ==
    LET s1 == settle(s, t, kind, value)
        s2 == [s1 EXCEPT !.isExecuting = FALSE]
        s3 == IF ~s2.isEmergency THEN next(s2) ELSE s2
    IN IF s.call[t].promise = "pending" THEN enqueueSettled(s3, t, kind) ELSE s3

\* emergency() after the await: return result or rethrow, then finally
emergencySettled(s, t, kind, value) ==
    LET s1 == settle(s, t, kind, value)
    IN stopFfmpeg([s1 EXCEPT !.commandQueue = <<>>,
                             !.isExecuting = FALSE,
                             !.isEmergency = FALSE,
                             !.call = [u \in Calls |->
                                 IF u \in Range(s1.commandQueue)
                                 THEN [s1.call[u] EXCEPT !.cleared = "emergency"]
                                 ELSE s1.call[u]]])

\* the promise of #sendCommand settles: its awaiter continues
loopSettled(s, t, kind, value) ==
    LET s1 == [s EXCEPT !.call[t].phase = "done"]
    IN IF s1.call[t].cmd = "emergency"
       THEN emergencySettled(s1, t, kind, value)
       ELSE nextSettled(s1, t, kind, value)

\* attemptFailed with the retry bound off by one
attemptFailedOffByOne(s, t, outcome, err) ==
    LET s1 == [s EXCEPT !.call[t].last = outcome,
                        !.call[t].timeouts = IF outcome = "timeout" THEN @ + 1 ELSE @]
    IN IF s1.call[t].attempt >= maxRetries - 1
       THEN [s1 EXCEPT !.call[t].phase = "done",
                       !.call[t].settles = @ + 1,
                       !.call[t].promise = "rejected",
                       !.call[t].value = err,
                       !.isExecuting = FALSE]
       ELSE [s1 EXCEPT !.call[t].phase = "backoff"]

\* #sendCommand: catch (err) { if (attempt >= maxRetries) return reject(err) }
\* and the backoff wait that follows otherwise
attemptFailed(s, t, outcome, err) ==
    LET s1 == [s EXCEPT !.call[t].last = outcome,
                        !.call[t].timeouts = IF outcome = "timeout" THEN @ + 1 ELSE @]
    IN IF s1.call[t].attempt >= maxRetries
       THEN loopSettled(s1, t, "rejected", err)
       ELSE [s1 EXCEPT !.call[t].phase = "backoff"]

\* #sendCommand: the attempt's promise resolved with a response
attemptReplied(s, t, msg) ==
    LET response == Response(msg)
    IN IF response.success
       THEN loopSettled([s EXCEPT !.call[t].last = "success"],
                        t, "resolved", response)
       ELSE [s EXCEPT !.call[t].last = "nonsuccess",
                      !.call[t].phase = "backoff"]

\* #sendCommand: one loop iteration up to the wait: the timer, the handler,
\* socket.send.  send() throws on a closed socket: the attempt's promise
\* rejects at once and the catch block runs.
sendAttempt(s, t) ==
    LET s1 == [s EXCEPT !.call[t].attempt = @ + 1]
    IN IF s1.socketClosed
       THEN attemptFailed(s1, t, "notrunning", "NotRunning")
       ELSE [s1 EXCEPT !.call[t].phase = "wait",
                       !.call[t].sends = @ + 1,
                       !.listeners = Append(@, t)]

\* #sendCommand: after the backoff wait, the next iteration, or the end of
\* the loop and reject(new Error('Failed to send command ...'))
backoffDone(s, t) ==
    LET s1 == [s EXCEPT !.call[t].backoffs = @ + 1]
    IN IF s1.call[t].attempt < maxRetries
       THEN sendAttempt(s1, t)
       ELSE loopSettled(s1, t, "rejected", "Failed")

\* enqueue that ignores the priority flag: every task goes to the tail
enqueueAtTail(s, t, cmd, priority) ==
    LET s1 == [s EXCEPT !.call[t] = [NoCall EXCEPT
                            !.cmd = cmd,
                            !.promise = "pending",
                            !.ahead = IF priority THEN Range(s.commandQueue) ELSE {},
                            !.running = IF priority THEN Running(s) ELSE {}],
                        !.commandQueue = Append(@, t)]
    IN IF s1.isExecuting \/ s1.isEmergency THEN s1
       ELSE [s1 EXCEPT !.isExecuting = TRUE,
                       !.commandQueue = Tail(@),
                       !.microtasks = Append(@, Head(s1.commandQueue)),
                       !.call[Head(s1.commandQueue)].phase =
                           IF s1.isConnected THEN "start" ELSE "notconn"]

\* #enqueue: the task goes to the head (priority) or the tail, then #next()
enqueue(s, t, cmd, priority) ==
    LET s1 == [s EXCEPT !.call[t] = [NoCall EXCEPT
                            !.cmd = cmd,
                            !.promise = "pending",
                            !.ahead = IF priority THEN Range(s.commandQueue) ELSE {},
                            !.running = IF priority THEN Running(s) ELSE {}],
                        !.commandQueue = IF priority THEN <<t>> \o @
                                         ELSE Append(@, t)]
    IN next(s1)

\* startVideo(), after its guard and up to the await
startVideo(s, t) == enqueue(s, t, "streamon", FALSE)

\* stopVideo(), after its guard and up to the await
stopVideo(s, t) == enqueue(s, t, "streamoff", FALSE)

\* startFfmpegDecoder(), after its guard: startVideo() without await if the
\* video is not on, ffmpegEnabled = true, spawn, the listeners
startFfmpegDecoder(s, t) ==
    LET s1 == IF ~s.videoConnected THEN startVideo(s, t) ELSE s
    IN [s1 EXCEPT !.ffmpegEnabled = TRUE,
                  !.processes = Append(@, "running"),
                  !.ffmpegProcess = Len(s1.processes) + 1]

\* emergency(), up to the await
emergency(s, t) ==
    LET s1 == [s EXCEPT !.isEmergency = TRUE,
                        !.commandQueue = <<>>,
                        !.call = [u \in Calls |->
                            IF u = t
                            THEN [NoCall EXCEPT !.cmd = "emergency",
                                                !.promise = "pending"]
                            ELSE IF u \in Range(s.commandQueue)
                            THEN [s.call[u] EXCEPT !.cleared = "emergency"]
                            ELSE s.call[u]]]
    IN sendCommand(s1, t)

\* disconnect(), after its guard
disconnect(s) ==
    LET s1 == stopFfmpeg(s)
    IN [s1 EXCEPT !.listeners = <<>>,
                  !.socketClosed = TRUE,
                  !.isConnected = FALSE,
                  !.commandQueue = <<>>,
                  !.isExecuting = FALSE,
                  !.isEmergency = FALSE,
                  !.call = [u \in Calls |->
                      IF u \in Range(s1.commandQueue)
                      THEN [s1.call[u] EXCEPT !.cleared = "disconnect"]
                      ELSE s1.call[u]]]

\* commandSocket 'message': every live handler takes the datagram, in
\* registration order (each is a once-handler and removes itself)
RECURSIVE deliver(_, _, _)
deliver(s, handlers, msg) ==
    IF handlers = <<>> THEN s
    ELSE deliver(attemptReplied(s, Head(handlers), msg), Tail(handlers), msg)

\* ---------------------------------------------------------- streamFrames
\* The generator of a streamFrames() call: where its body stands (not yet
\* started, at the 20 ms wait, at the yield, finished), its local queue, the
\* frames it has yielded, and how many 'frame' events had been emitted when
\* it subscribed (from) and when it unsubscribed (to).
NoGen ==
    [pc |-> "unstarted", queue |-> <<>>, yielded |-> <<>>, from |-> 0, to |-> 0]

\* emit('frame', frame) for each of the frames: handler = queue.push(frame),
\* registered from this.on('frame', handler) to this.off('frame', handler)
onFrames(g, emitted) ==
    IF g.pc \in {"waiting", "yielded"} THEN [g EXCEPT !.queue = @ \o emitted] ELSE g

\* the loop of streamFrames with while (this.ffmpegEnabled) for its test
loopWhileEnabled(g, enabled, nEmitted) ==
    IF enabled
    THEN IF Len(g.queue) > 0
         THEN [g EXCEPT !.pc = "yielded",
                        !.yielded = Append(@, Head(g.queue)),
                        !.queue = Tail(@)]
         ELSE [g EXCEPT !.pc = "waiting"]
    ELSE [g EXCEPT !.pc = "done", !.to = nEmitted]

\* streamFrames from the test of its while loop to the next yield or await,
\* or through the finally block to its end
loop(g, enabled, nEmitted) ==
    IF enabled \/ Len(g.queue) > 0
    THEN IF Len(g.queue) > 0
         THEN [g EXCEPT !.pc = "yielded",
                        !.yielded = Append(@, Head(g.queue)),
                        !.queue = Tail(@)]
         ELSE [g EXCEPT !.pc = "waiting"]
    ELSE [g EXCEPT !.pc = "done", !.to = nEmitted]

\* ---------------------------------------------------------------- actions
Init ==
    /\ isConnected = FALSE
    /\ socketClosed = FALSE
    /\ commandQueue = <<>>
    /\ isExecuting = FALSE
    /\ isEmergency = FALSE
    /\ listeners = <<>>
    /\ microtasks = <<>>
    /\ call = [t \in Calls |-> NoCall]
    /\ nCalls = 0
    /\ nEmergencies = 0
    /\ faults = 0
    /\ validationErrors = 0
    /\ datagram = <<>>
    /\ gen = NoGen
    /\ videoConnected = FALSE
    /\ processes = <<>>
    /\ ffmpegProcess = 0
    /\ ffmpegEnabled = FALSE
    /\ stream = <<>>
    /\ sent = <<>>
    /\ fed = 0
    /\ chunks = 0
    /\ buffer = <<>>
    /\ frames = <<>>

\* Promise continuations (microtasks) run before the event loop takes the
\* next timer or socket event.  Continuations of the same kind run in the
\* order they were queued.
MicrotasksPending == microtasks # <<>>

FirstOfItsKind(t) ==
    \E i \in 1..Len(microtasks) :
        /\ microtasks[i] = t
        /\ \A j \in 1..(i - 1) : call[microtasks[j]].phase # call[t].phase

\* connect(), after the bind callbacks of both sockets: isConnected = true,
\* then the priority 'command' task.  A second connect() returns at the guard;
\* after disconnect() bind throws on the closed socket and connect() fails
\* without touching the dispatch state.
Connect ==
    /\ ~MicrotasksPending
    /\ ~isConnected /\ ~socketClosed
    /\ Commit(enqueue([State EXCEPT !.isConnected = TRUE], 0, "command", TRUE))
    /\ UNCHANGED <<nCalls, nEmergencies, faults>>

\* takeoff(): #enqueue('takeoff', { priority: true })
Takeoff(maxCalls) ==
    /\ nCalls < maxCalls
    /\ Commit(enqueue(State, nCalls + 1, "takeoff", TRUE))
    /\ nCalls' = nCalls + 1
    /\ UNCHANGED <<nEmergencies, faults>>

\* land() and every other command method: #enqueue(cmd)
Land(maxCalls) ==
    /\ nCalls < maxCalls
    /\ Commit(enqueue(State, nCalls + 1, "land", FALSE))
    /\ nCalls' = nCalls + 1
    /\ UNCHANGED <<nEmergencies, faults>>

Emergency(maxEmergencies) ==
    /\ nEmergencies < maxEmergencies
    /\ Commit(emergency(State, NumCommands + nEmergencies + 1))
    /\ nEmergencies' = nEmergencies + 1
    /\ UNCHANGED <<nCalls, faults>>

Disconnect ==
    /\ isConnected
    /\ Commit(disconnect(State))
    /\ UNCHANGED <<nCalls, nEmergencies, faults>>

\* the awaiter of a rejected 'not connected' promise continues
NotConnected(t) ==
    /\ call[t].phase = "notconn"
    /\ FirstOfItsKind(t)
    /\ Commit(loopSettled([State EXCEPT !.microtasks = Remove(@, t)],
                           t, "rejected", "NotConnected"))
    /\ UNCHANGED <<nCalls, nEmergencies, faults>>

\* the first loop iteration of #sendCommand
FirstAttempt(t) ==
    /\ call[t].phase = "start"
    /\ FirstOfItsKind(t)
    /\ Commit(sendAttempt([State EXCEPT !.microtasks = Remove(@, t)], t))
    /\ UNCHANGED <<nCalls, nEmergencies, faults>>

\* a datagram arrives on the command socket
Reply(msg, maxFaults) ==
    /\ ~MicrotasksPending
    /\ ~socketClosed
    /\ listeners # <<>>
    /\ isOk(msg) \/ faults < maxFaults
    /\ Commit(deliver([State EXCEPT !.listeners = <<>>], listeners, msg))
    /\ faults' = IF isOk(msg) THEN faults ELSE faults + 1
    /\ UNCHANGED <<nCalls, nEmergencies>>

\* the attempt's timer fires.  The handler of a timed-out attempt stays
\* registered in the code; its promise is settled, so it does nothing when a
\* datagram arrives, and the model drops it here.
Timeout(t, maxFaults) ==
    /\ ~MicrotasksPending
    /\ call[t].phase = "wait"
    /\ faults < maxFaults
    /\ Commit(attemptFailed([State EXCEPT !.listeners = Remove(@, t)],
                            t, "timeout", "Timeout"))
    /\ faults' = faults + 1
    /\ UNCHANGED <<nCalls, nEmergencies>>

\* the send callback reports an error: clearTimeout, off, rej(err)
SendError(t, maxFaults) ==
    /\ ~MicrotasksPending
    /\ call[t].phase = "wait"
    /\ t \in Range(listeners)
    /\ faults < maxFaults
    /\ Commit(attemptFailed([State EXCEPT !.listeners = Remove(@, t)],
                            t, "senderror", "SendError"))
    /\ faults' = faults + 1
    /\ UNCHANGED <<nCalls, nEmergencies>>

\* the 400 ms backoff timer fires
Backoff(t) ==
    /\ ~MicrotasksPending
    /\ call[t].phase = "backoff"
    /\ Commit(backoffDone(State, t))
    /\ UNCHANGED <<nCalls, nEmergencies, faults>>

Dispatch(maxCalls, maxEmergencies, maxFaults) ==
    \/ Connect
    \/ Takeoff(maxCalls)
    \/ Land(maxCalls)
    \/ Emergency(maxEmergencies)
    \/ Disconnect
    \/ \E t \in Calls : NotConnected(t)
    \/ \E t \in Calls : FirstAttempt(t)
    \/ \E msg \in Replies : Reply(msg, maxFaults)
    \/ \E t \in Calls : Timeout(t, maxFaults)
    \/ \E t \in Calls : SendError(t, maxFaults)
    \/ \E t \in Calls : Backoff(t)

Next == Dispatch(MaxCalls, MaxEmergencies, MaxFaults)

Spec == Init /\ [][Next]_vars

\* the same client, with a second emergency() call
OverlapNext == Dispatch(OverlapCalls, OverlapEmergencies, OverlapFaults)

OverlapSpec == Init /\ [][OverlapNext]_vars

\* ------------------------------------------------------ reply datagrams
\* the character of an ASCII byte
CharOf(b) ==
    CASE b = 10 -> "\n" [] b = 32 -> " "
      [] b = 69 -> "E" [] b = 75 -> "K" [] b = 79 -> "O" [] b = 82 -> "R"
      [] b = 101 -> "e" [] b = 107 -> "k" [] b = 111 -> "o" [] b = 114 -> "r"
      [] b = 115 -> "s"

RECURSIVE toString(_)
\* msg.toString('utf8'): an ASCII byte is its character, the bytes C3 A9 are
\* one character U+00E9, and a byte that starts or continues no well-formed
\* sequence is U+FFFD
toString(bytes) ==
    IF bytes = <<>> THEN <<>>
    ELSE IF Head(bytes) < 128 THEN <<CharOf(Head(bytes))>> \o toString(Tail(bytes))
    ELSE IF Head(bytes) = 195 /\ Len(bytes) >= 2 /\ bytes[2] = 169
         THEN <<"U+00E9">> \o toString(Tail(Tail(bytes)))
    ELSE <<"U+FFFD">> \o toString(Tail(bytes))

\* 'error' in every letter case
ErrorCases ==
    {<<e, r1, r2, o, r3>> : e \in {69, 101}, r1 \in {82, 114}, r2 \in {82, 114},
                            o \in {79, 111}, r3 \in {82, 114}}

\* what a reply says: nothing, ok, error in some letter case, a part of it, or
\* more than it
Cores ==
    ErrorCases \union
    {<<>>, <<111, 107>>, <<79, 75>>, <<101, 114, 114>>, <<101, 114, 114, 111, 114, 115>>}

\* bytes that may follow it: none, ASCII, a two-byte character, a byte that is
\* not UTF-8, half a character
Extras == {<<>>, <<107>>, <<195, 169>>, <<255>>, <<195>>}

Pads == UNION {[1..n -> {10, 32}] : n \in 0..MaxPad}

Datagrams ==
    {l \o c \o x \o r : l \in Pads, c \in Cores, x \in Extras, r \in Pads}

\* a connected client whose drone answers every command with the same
\* datagram
ClassifyInit ==
    /\ isConnected = FALSE
    /\ socketClosed = FALSE
    /\ commandQueue = <<>>
    /\ isExecuting = FALSE
    /\ isEmergency = FALSE
    /\ listeners = <<>>
    /\ microtasks = <<>>
    /\ call = [t \in Calls |-> NoCall]
    /\ nCalls = 0
    /\ nEmergencies = 0
    /\ faults = 0
    /\ validationErrors = 0
    /\ datagram \in Datagrams
    /\ gen = NoGen
    /\ videoConnected = FALSE
    /\ processes = <<>>
    /\ ffmpegProcess = 0
    /\ ffmpegEnabled = FALSE
    /\ stream = <<>>
    /\ sent = <<>>
    /\ fed = 0
    /\ chunks = 0
    /\ buffer = <<>>
    /\ frames = <<>>

ClassifyNext ==
    \/ Connect
    \/ \E t \in Calls : FirstAttempt(t)
    \/ Reply(toString(datagram), ClassifyFaults)
    \/ \E t \in Calls : Backoff(t)

ClassifySpec == ClassifyInit /\ [][ClassifyNext]_vars

\* ----------------------------------------------------- movement methods
\* up, down, left, right, forward, back, cw, ccw
Methods == {"up", "down", "left", "right", "forward", "back", "cw", "ccw"}

\* the min and max each method passes to #validateRange
MinOf(m) == IF m \in {"cw", "ccw"} THEN 1 ELSE 20
MaxOf(m) == IF m \in {"cw", "ccw"} THEN 3600 ELSE 500

\* A number argument is given in halves: the value h stands for h / 2, so
\* that 41 is 20.5 and 40 is 20.
Half(n) == 2 * n

\* Number.isInteger
isInteger(h) == h % 2 = 0

\* #validateRange without the integer test
validateRangeAnyNumber(command, value, min, max) ==
    IF value < Half(min) \/ value > Half(max) THEN "ValidationError" ELSE "none"

\* #validateRange: the error it throws, "none" when it returns
validateRange(command, value, min, max) ==
    IF ~isInteger(value) THEN "ValidationError"
    ELSE IF value < Half(min) \/ value > Half(max) THEN "ValidationError"
    ELSE "none"

\* arguments the movement methods are called with: around both ends of the
\* range, integers and not
Arguments(m) ==
    {Half(MinOf(m)) + d : d \in -2..1} \union {Half(MaxOf(m)) + d : d \in -1..2}

\* the calls of movement methods made on the client: <<method, argument>>
MoveCallsMade == UNION {{<<m, value>> : value \in Arguments(m)} : m \in Methods}

\* up(distance) ... ccw(degrees): #validateRange, then #enqueue
Move(maxCalls, maxInvalid, m, value) ==
    IF validateRange(m, value, MinOf(m), MaxOf(m)) # "none"
    THEN /\ validationErrors < maxInvalid
         /\ validationErrors' = validationErrors + 1
         /\ UNCHANGED <<dispatchVars, frameVars, datagram, gen>>
    ELSE /\ nCalls < maxCalls
         /\ Commit(enqueue(State, nCalls + 1, m, FALSE))
         /\ nCalls' = nCalls + 1
         /\ UNCHANGED <<nEmergencies, faults>>

\* the client with the movement methods called on it as well
MoveNext ==
    \/ Dispatch(MoveCalls, MoveEmergencies, MoveFaults)
    \/ \E c \in MoveCallsMade : Move(MoveCalls, MaxInvalid, c[1], c[2])

MoveSpec == Init /\ [][MoveNext]_vars

\* the same client, driven with more calls and fewer failed attempts
QueueNext == Dispatch(QueueCalls, QueueEmergencies, QueueFaults)

QueueSpec == Init /\ [][QueueNext]_vars

\* ------------------------------------------------------- frame splitter
\* The decoder's output is a sequence of items: a byte 0xFF, 0xD8 or 0xD9, or
\* Run, which stands for RunLen consecutive 0x00 bytes (so that buffers longer
\* than the ceiling are within reach).  A 'data' chunk holds whole items.
\* A negative item -n stands for n consecutive 0x00 bytes: what is left of a
\* Run that was fed byte by byte across a clearing of the buffer.
Run == 256
RunLen == Ceiling \div 2
Items == {255, 216, 217, Run}

\* Buffer.from([0xff, 0xd8]) and Buffer.from([0xff, 0xd9])
StartMarker == <<255, 216>>
EndMarker == <<255, 217>>

RECURSIVE byteLength(_)
\* buffer.length, in bytes
byteLength(buf) ==
    IF buf = <<>> THEN 0
    ELSE (IF Head(buf) = Run THEN RunLen
          ELSE IF Head(buf) < 0 THEN 0 - Head(buf) ELSE 1) + byteLength(Tail(buf))

\* buffer.indexOf(marker, byteOffset): the offset (from 0) of the first
\* occurrence of the two-byte marker at or after byteOffset, else -1
indexOf(buf, marker, byteOffset) ==
    LET hits == {i \in byteOffset..(Len(buf) - 2) :
                     i >= 0 /\ buf[i + 1] = marker[1] /\ buf[i + 2] = marker[2]}
    IN IF hits = {} THEN -1
       ELSE CHOOSE i \in hits : \A j \in hits : i <= j

\* buffer.subarray(from, to)
subarray(buf, from, to) == SubSeq(buf, from + 1, to)

RECURSIVE extractFramesKeepsMarker(_, _)
\* the loop of the 'data' handler advancing the buffer to the end marker
\* instead of past it: subarray(end) for subarray(end + 2)
extractFramesKeepsMarker(buf, emitted) ==
    LET start == indexOf(buf, StartMarker, 0)
        end == indexOf(buf, EndMarker, start + 2)
    IN IF start # -1 /\ end # -1
       THEN extractFramesKeepsMarker(subarray(buf, end, Len(buf)),
                                     Append(emitted, subarray(buf, start, end + 2)))
       ELSE [buffer |-> buf, frames |-> emitted]

RECURSIVE extractFramesOpenEnded(_, _)
\* the loop of the 'data' handler emitting the frame without its end marker:
\* subarray(start, end) for subarray(start, end + 2)
extractFramesOpenEnded(buf, emitted) ==
    LET start == indexOf(buf, StartMarker, 0)
        end == indexOf(buf, EndMarker, start + 2)
    IN IF start # -1 /\ end # -1
       THEN extractFramesOpenEnded(subarray(buf, end + 2, Len(buf)),
                                   Append(emitted, subarray(buf, start, end)))
       ELSE [buffer |-> buf, frames |-> emitted]

RECURSIVE extractFrames(_, _)
\* the scan and the while loop of the 'data' handler
extractFrames(buf, emitted) ==
    LET start == indexOf(buf, StartMarker, 0)
        end == indexOf(buf, EndMarker, start + 2)
    IN IF start # -1 /\ end # -1
       THEN extractFrames(subarray(buf, end + 2, Len(buf)),
                          Append(emitted, subarray(buf, start, end + 2)))
       ELSE [buffer |-> buf, frames |-> emitted]

\* the 'data' handler without its last line: the buffer is never emptied
onDataKeepsAll(buf, emitted, chunk) == extractFrames(buf \o chunk, emitted)

\* ffmpegProcess.stdout.on('data', chunk => ...)
onData(buf, emitted, chunk) ==
    LET r == extractFrames(buf \o chunk, emitted)
    IN [buffer |-> IF byteLength(r.buffer) > Ceiling THEN <<>> ELSE r.buffer,
        frames |-> r.frames]

Streams == UNION {[1..n -> Items] : n \in 0..MaxStream}

\* startFfmpegDecoder() has run: the decoder process is up and its 'data'
\* handler holds an empty buffer.  (The 'streamon' task that
\* startFfmpegDecoder() enqueues when the video is off belongs to the
\* dispatcher and is left to Spec: the handler reads and writes its buffer
\* only.)
FrameInit ==
    /\ isConnected = FALSE
    /\ socketClosed = FALSE
    /\ commandQueue = <<>>
    /\ isExecuting = FALSE
    /\ isEmergency = FALSE
    /\ listeners = <<>>
    /\ microtasks = <<>>
    /\ call = [t \in Calls |-> NoCall]
    /\ nCalls = 0
    /\ nEmergencies = 0
    /\ faults = 0
    /\ validationErrors = 0
    /\ datagram = <<>>
    /\ gen = NoGen
    /\ videoConnected = FALSE
    /\ processes = <<"running">>
    /\ ffmpegProcess = 1
    /\ ffmpegEnabled = TRUE
    /\ stream \in Streams
    /\ sent = <<>>
    /\ fed = 0
    /\ chunks = 0
    /\ buffer = <<>>
    /\ frames = <<>>

\* a 'data' event with the next n items of the stream
Data(n) ==
    /\ LET r == onData(buffer, frames, SubSeq(stream, fed + 1, fed + n))
       IN /\ buffer' = r.buffer /\ frames' = r.frames
          /\ gen' = onFrames(gen, SubSeq(r.frames, Len(frames) + 1, Len(r.frames)))
    /\ fed' = fed + n
    /\ chunks' = chunks + 1
    /\ UNCHANGED <<stream, sent, dispatchVars, validationErrors, datagram>>

FrameNext == \E n \in 1..(Len(stream) - fed) : Data(n)

FrameSpec == FrameInit /\ [][FrameNext]_vars

\* ---------------------------------------- whole frames, one byte per chunk
\* n consecutive 0x00 bytes as items
zeros(n) == IF n = 0 THEN <<>> ELSE IF n = RunLen THEN <<Run>> ELSE <<0 - n>>

\* The 'data' handler run n times, each time with a chunk of one 0x00 byte, on
\* a buffer that holds no complete frame (as the handler leaves it).  A 0x00
\* byte completes no marker, so no run of the handler emits anything and each
\* only appends its byte and tests the length: the buffer is emptied by the
\* byte that takes it over the ceiling, and then by every (Ceiling + 1)-th
\* byte after that one.
onZeroBytes(buf, emitted, n) ==
    LET room == Ceiling - byteLength(buf)
    IN [buffer |-> IF n <= room THEN buf \o zeros(n)
                   ELSE zeros((n - room - 1) % (Ceiling + 1)),
        frames |-> emitted]

\* a payload is well formed when the end marker that closes its frame is the
\* first end marker after the start marker
Payloads(n) ==
    {p \in [1..n -> Items] : indexOf(p \o EndMarker, EndMarker, 0) = n}

WellFormedFrames(n) ==
    IF n < 4 THEN {} ELSE {StartMarker \o p \o EndMarker : p \in Payloads(n - 4)}

RECURSIVE Trips(_)
\* the sequences of well-formed frames of at most n items in all
Trips(n) ==
    {<<>>} \union
    UNION {{<<f>> \o rest : f \in WellFormedFrames(k), rest \in Trips(n - k)} :
               k \in 4..n}

RECURSIVE Flatten(_)
Flatten(fs) == IF fs = <<>> THEN <<>> ELSE Head(fs) \o Flatten(Tail(fs))

\* startFfmpegDecoder() has run, and the decoder writes a synthetic stream of
\* whole frames back to back
TripInit ==
    /\ isConnected = FALSE
    /\ socketClosed = FALSE
    /\ commandQueue = <<>>
    /\ isExecuting = FALSE
    /\ isEmergency = FALSE
    /\ listeners = <<>>
    /\ microtasks = <<>>
    /\ call = [t \in Calls |-> NoCall]
    /\ nCalls = 0
    /\ nEmergencies = 0
    /\ faults = 0
    /\ validationErrors = 0
    /\ datagram = <<>>
    /\ gen = NoGen
    /\ videoConnected = FALSE
    /\ processes = <<"running">>
    /\ ffmpegProcess = 1
    /\ ffmpegEnabled = TRUE
    /\ sent \in Trips(MaxTrip)
    /\ stream = Flatten(sent)
    /\ fed = 0
    /\ chunks = 0
    /\ buffer = <<>>
    /\ frames = <<>>

\* the next item of the stream arrives one byte per 'data' event: one event
\* for a byte, RunLen events for a Run
Bytes ==
    /\ fed < Len(stream)
    /\ LET item == stream[fed + 1]
           r == IF item = Run THEN onZeroBytes(buffer, frames, RunLen)
                ELSE onData(buffer, frames, <<item>>)
       IN /\ buffer' = r.buffer /\ frames' = r.frames
          /\ gen' = onFrames(gen, SubSeq(r.frames, Len(frames) + 1, Len(r.frames)))
          /\ chunks' = chunks + (IF item = Run THEN RunLen ELSE 1)
    /\ fed' = fed + 1
    /\ UNCHANGED <<stream, sent, dispatchVars, validationErrors, datagram>>

TripNext == Bytes

TripSpec == TripInit /\ [][TripNext]_vars

\* ------------------------------------------- the consumer of streamFrames
\* the consumer calls next() on the generator: the body starts (the queue,
\* this.on('frame', handler), the loop) or goes on after the yield
Pull ==
    /\ gen.pc \in {"unstarted", "yielded"}
    /\ gen' = loop(IF gen.pc = "unstarted"
                   THEN [gen EXCEPT !.from = Len(frames)] ELSE gen,
                   ffmpegEnabled, Len(frames))
    /\ UNCHANGED <<dispatchVars, frameVars, validationErrors, datagram>>

\* the 20 ms timer of the loop fires
Wake ==
    /\ gen.pc = "waiting"
    /\ gen' = loop(gen, ffmpegEnabled, Len(frames))
    /\ UNCHANGED <<dispatchVars, frameVars, validationErrors, datagram>>

\* 'exit' of decoder process p, on its own or after the kill: the listener
\* registered when p was spawned sets ffmpegEnabled = false.  The stdout of
\* the process may still deliver what was written before.
Exit(p) ==
    /\ processes[p] \in {"running", "killed"}
    /\ processes' = [processes EXCEPT ![p] = "exited"]
    /\ ffmpegEnabled' = FALSE
    /\ UNCHANGED <<isConnected, socketClosed, commandQueue, isExecuting,
                   isEmergency, listeners, microtasks, call, nCalls,
                   nEmergencies, faults, videoConnected, ffmpegProcess,
                   frameVars, validationErrors, datagram, gen>>

\* startFfmpegDecoder() has run; the decoder writes whole frames
StreamInit ==
    /\ isConnected = FALSE
    /\ socketClosed = FALSE
    /\ commandQueue = <<>>
    /\ isExecuting = FALSE
    /\ isEmergency = FALSE
    /\ listeners = <<>>
    /\ microtasks = <<>>
    /\ call = [t \in Calls |-> NoCall]
    /\ nCalls = 0
    /\ nEmergencies = 0
    /\ faults = 0
    /\ validationErrors = 0
    /\ datagram = <<>>
    /\ gen = NoGen
    /\ videoConnected = FALSE
    /\ processes = <<"running">>
    /\ ffmpegProcess = 1
    /\ ffmpegEnabled = TRUE
    /\ sent \in Trips(MaxShow)
    /\ stream = Flatten(sent)
    /\ fed = 0
    /\ chunks = 0
    /\ buffer = <<>>
    /\ frames = <<>>

StreamNext ==
    \/ \E n \in 1..(Len(stream) - fed) : Data(n)
    \/ \E p \in 1..Len(processes) : Exit(p)
    \/ Pull
    \/ Wake

\* the consumer keeps pulling and the timer fires
StreamSpec ==
    StreamInit /\ [][StreamNext]_vars /\ WF_vars(Pull) /\ WF_vars(Wake)

\* ------------------------------------------------- video and the decoder
\* startVideo(): returns 'Video already started.' when videoConnected
StartVideo(maxCalls) ==
    /\ ~videoConnected
    /\ nCalls < maxCalls
    /\ Commit(startVideo(State, nCalls + 1))
    /\ nCalls' = nCalls + 1
    /\ UNCHANGED <<nEmergencies, faults>>

\* stopVideo(): returns 'Video already stopped.' when not videoConnected
StopVideo(maxCalls) ==
    /\ videoConnected
    /\ nCalls < maxCalls
    /\ Commit(stopVideo(State, nCalls + 1))
    /\ nCalls' = nCalls + 1
    /\ UNCHANGED <<nEmergencies, faults>>

\* startFfmpegDecoder(): returns at once when ffmpegEnabled
StartFfmpegDecoder(maxCalls, maxProcesses) ==
    /\ ~ffmpegEnabled
    /\ Len(processes) < maxProcesses
    /\ videoConnected \/ nCalls < maxCalls
    /\ Commit(startFfmpegDecoder(State, nCalls + 1))
    /\ nCalls' = IF videoConnected THEN nCalls ELSE nCalls + 1
    /\ UNCHANGED <<nEmergencies, faults>>

\* the client with the video methods called on it and the decoder
\* processes exiting
VideoNext ==
    \/ Connect
    \/ StartVideo(VideoCalls)
    \/ StopVideo(VideoCalls)
    \/ StartFfmpegDecoder(VideoCalls, MaxProcesses)
    \/ Emergency(VideoEmergencies)
    \/ Disconnect
    \/ \E t \in Calls : NotConnected(t)
    \/ \E t \in Calls : FirstAttempt(t)
    \/ \E msg \in Replies : Reply(msg, VideoFaults)
    \/ \E t \in Calls : Timeout(t, VideoFaults)
    \/ \E t \in Calls : SendError(t, VideoFaults)
    \/ \E t \in Calls : Backoff(t)
    \/ \E p \in 1..Len(processes) : Exit(p)

VideoSpec == Init /\ [][VideoNext]_vars

\* ------------------------------------------------------------------ claims
\* attempts sent and still waiting for their reply or timeout
InFlight == {t \in Calls : call[t].phase = "wait"}

\* #sendCommand loops between their first send and their end
Looping == {t \in Calls : call[t].phase \in {"wait", "backoff"}}

Settled(t) == call[t].promise \in {"resolved", "rejected"}

\* C1: at every instant at most one command attempt is outstanding on the
\* command transport, and no two retry loops overlap, whatever the
\* interleaving of submissions, emergency() calls, replies, timeouts and
\* backoff waits.
C1_OneAttemptInFlight ==
    /\ Cardinality(InFlight) <= 1
    /\ Cardinality(Looping) <= 1

\* C2: the promise of every command submitted through #enqueue settles, and
\* settles exactly once.  A pending promise can still settle only while its
\* task is in the queue or held by a running #next: a pending promise that is
\* neither is left pending forever.
C2_SettlesExactlyOnce ==
    \A t \in Calls :
        call[t].cmd \in {"command", "takeoff", "land"} =>
            /\ call[t].settles <= 1
            /\ call[t].promise = "pending" =>
                   t \in Range(commandQueue) \/ t \in Running(State)

\* every attempt the loop of t has finished so far ended by its timer
OnlyTimeouts(t) == call[t].attempt >= 1 /\ call[t].timeouts = call[t].attempt

\* the sends of a command whose attempts all time out: maxRetries of them, a
\* backoff wait before every send but the first, none after the last timeout
ExhaustedSends(t) ==
    /\ call[t].phase = "wait" /\ call[t].timeouts = call[t].attempt - 1 =>
           call[t].sends = call[t].attempt /\ call[t].backoffs = call[t].attempt - 1
    /\ call[t].phase = "done" /\ OnlyTimeouts(t) =>
           call[t].sends = maxRetries /\ call[t].backoffs = maxRetries - 1

C4_PriorityAfterExecuting ==
    \A p \in Calls :
        /\ call[p].cmd \in {"command", "takeoff"}
        /\ Cardinality(call[p].running) = 1
        /\ call[p].ahead # {}
        =>
            /\ call[p].sends > 0 => \A x \in call[p].running : Settled(x)
            /\ \A c \in call[p].ahead : call[c].sends > 0 => call[p].sends > 0

C4_Witness ==
    \E p \in Calls :
        /\ call[p].cmd = "takeoff"
        /\ Cardinality(call[p].running) = 1
        /\ Cardinality(call[p].ahead) = 2
        /\ \A c \in call[p].ahead : call[c].cmd = "land" /\ call[c].sends > 0
        /\ call[p].sends > 0

\* C5: emergency() rejects the promise of each of the N commands queued at
\* the call with a "superseded by emergency" reason, and none of them is ever
\* sent.
C5_SupersededRejected ==
    \A t \in Calls :
        call[t].cleared = "emergency" =>
            /\ call[t].promise = "rejected" /\ call[t].value = "Superseded"
            /\ call[t].sends = 0

\* C6: each emergency() call sends the emergency command at most once: when
\* its single attempt times out, emergency() fails without a second send.
C6_EmergencySentOnce ==
    \A t \in Calls :
        call[t].cmd = "emergency" =>
            /\ call[t].sends <= 1
            /\ call[t].last = "timeout" =>
                   call[t].phase = "done" /\ call[t].promise = "rejected"

\* C7: when a well-formed non-success reply arrives for an attempt, the
\* command's promise resolves at once with a non-success record and no
\* further attempt is sent for that command.
C7_NonSuccessResolves ==
    \A t \in Calls :
        call[t].last = "nonsuccess" =>
            /\ call[t].phase = "done"
            /\ call[t].promise = "resolved"
            /\ call[t].value.success = FALSE

\* C8: when the transport reports a send error for an attempt, the attempt
\* loop stops at once: the promise rejects with that error and no further send
\* is made, whatever the attempt number.
C8_SendErrorIsFatal ==
    \A t \in Calls :
        call[t].last = "senderror" =>
            /\ call[t].phase = "done"
            /\ call[t].promise = "rejected"
            /\ call[t].value = "SendError"

\* C9: disconnect() on a connected client rejects the promise of every queued
\* command with a "disconnected" error and leaves the dispatcher Idle (empty
\* queue, not executing, not in emergency).
C9_DisconnectRejectsQueued ==
    [][isConnected /\ ~isConnected' =>
           /\ \A t \in Range(commandQueue) :
                  call'[t].promise = "rejected" /\ call'[t].value = "Disconnected"
           /\ commandQueue' = <<>> /\ ~isExecuting' /\ ~isEmergency']_vars

\* the stream is junk ++ FF D8 ++ payload ++ FF D9 ++ tail, with the start
\* marker at offset i and the end marker at offset k, and holds no other
\* complete marker pair: no start marker begins in junk, no end marker in
\* payload, and tail holds no start marker followed by an end marker
FramedAt(i, k) ==
    /\ i >= 0 /\ i + 2 <= k /\ k + 2 <= Len(stream)
    /\ indexOf(stream, StartMarker, 0) = i
    /\ indexOf(stream, EndMarker, i + 2) = k
    /\ LET tail == subarray(stream, k + 2, Len(stream))
           s == indexOf(tail, StartMarker, 0)
       IN s = -1 \/ indexOf(tail, EndMarker, s + 2) = -1

Offsets == 0..MaxStream + 1

OneFrameAndTail(i, k) ==
    /\ frames = <<subarray(stream, i, k + 2)>>
    /\ buffer = subarray(stream, k + 2, Len(stream))

\* C10 as claimed: for a stream junk ++ FF D8 ++ payload ++ FF D9 ++ tail with
\* no other complete marker pair, however it is split into chunks, once it has
\* been fed exactly one frame has been emitted, FF D8 ++ payload ++ FF D9, and
\* exactly tail is left in the buffer.
C10_AsClaimed ==
    fed = Len(stream) =>
        \A i, k \in Offsets : FramedAt(i, k) => OneFrameAndTail(i, k)

\* C10 amended: ... for such a stream of at most 5,000,000 bytes ...
C10_ChunkingIndependent ==
    fed = Len(stream) /\ byteLength(stream) <= Ceiling =>
        \A i, k \in Offsets : FramedAt(i, k) => OneFrameAndTail(i, k)

C10_Witness ==
    /\ fed = Len(stream) /\ byteLength(stream) <= Ceiling
    /\ chunks >= 3
    /\ \E i, k \in Offsets :
           /\ FramedAt(i, k) /\ OneFrameAndTail(i, k)
           /\ i > 0 /\ k + 2 < Len(stream)

\* C11 as claimed: a stream made of K well-formed frames back to back, fed
\* one byte per chunk, gives exactly K 'frame' events, in the original order
\* and each with the bytes of its frame, start marker through end marker.
C11_AsClaimed ==
    fed = Len(stream) => frames = sent

\* C11 amended: ... K well-formed frames of at most 5,000,000 bytes each ...
\* While the stream is being fed, the frames emitted are the frames that have
\* arrived whole, and nothing of the last frame is left in the buffer.
C11_RoundTrip ==
    (\A i \in 1..Len(sent) : byteLength(sent[i]) <= Ceiling) =>
        /\ \E k \in 0..Len(sent) :
               /\ frames = SubSeq(sent, 1, k)
               /\ Len(Flatten(frames)) <= fed
               /\ k < Len(sent) => fed < Len(Flatten(SubSeq(sent, 1, k + 1)))
        /\ fed = Len(stream) => frames = sent /\ buffer = <<>>

C11_Witness ==
    /\ fed = Len(stream)
    /\ Len(sent) >= 2
    /\ \A i \in 1..Len(sent) : byteLength(sent[i]) <= Ceiling
    /\ \E i \in 1..Len(sent) : Run \in Range(sent[i])
    /\ frames = sent

\* C12: after every feed the frame buffer holds at most 5,000,000 bytes: when
\* what is left of the buffer and the chunk, once the complete frames in them
\* have been emitted, is longer than the ceiling, the buffer is emptied, and
\* otherwise it is kept as it is.  The frames of a feed are cut from the
\* buffer as kept and the chunk: none comes from discarded bytes.
C12_CeilingKept ==
    [][LET whole == buffer \o SubSeq(stream, fed + 1, fed')
           r == extractFrames(whole, <<>>)
       IN /\ byteLength(buffer') <= Ceiling
          /\ frames' = frames \o r.frames
          /\ byteLength(r.buffer) > Ceiling => buffer' = <<>>
          /\ byteLength(r.buffer) <= Ceiling => buffer' = r.buffer]_vars

\* more than the ceiling has been fed with no marker pair in it: the buffer
\* has been emptied and nothing has been emitted
C12_Witness ==
    /\ fed > 0
    /\ byteLength(SubSeq(stream, 1, fed)) > Ceiling
    /\ LET start == indexOf(stream, StartMarker, 0)
       IN start = -1 \/ indexOf(stream, EndMarker, start + 2) = -1
    /\ buffer = <<>>
    /\ frames = <<>>

\* the argument is not an integer, or is outside 20..500 for
\* up/down/left/right/forward/back, outside 1..3600 for cw/ccw
Malformed(m, value) ==
    \/ value % 2 # 0
    \/ m \in {"up", "down", "left", "right", "forward", "back"}
           /\ (value < Half(20) \/ value > Half(500))
    \/ m \in {"cw", "ccw"} /\ (value < Half(1) \/ value > Half(3600))

\* C13: a movement or rotation call with such an argument fails with a
\* ValidationError before anything is enqueued: the queue, the dispatch flags,
\* the tasks and the handlers on the transport are as they were, and nothing
\* is sent.
MalformedCalls == {c \in MoveCallsMade : Malformed(c[1], c[2])}

C13_InvalidNotEnqueued ==
    [][(\E c \in MalformedCalls : Move(MoveCalls, MaxInvalid, c[1], c[2])) =>
           /\ validationErrors' = validationErrors + 1
           /\ UNCHANGED <<commandQueue, isExecuting, isEmergency,
                          listeners, microtasks, call>>]_vars

\* a call has failed its validation on a client that has a command executing
\* and another queued
C13_Witness ==
    /\ validationErrors > 0
    /\ isExecuting
    /\ commandQueue # <<>>

\* emergency() calls whose emergency command has not settled
EmergenciesInProgress ==
    {e \in Calls : call[e].cmd = "emergency" /\ call[e].promise = "pending"}

\* C14: while an emergency() call is in progress no command is dequeued,
\* whatever the interleaving, commands submitted during the emergency and
\* overlapping emergency() calls included.  (Stated for a connected client:
\* a step during which one emergency() call is in progress before and after
\* starts the #sendCommand of no command taken from the queue.)
C14_NoDequeueInEmergency ==
    [][(isConnected /\ isConnected'
          /\ \E e \in EmergenciesInProgress : call'[e].promise = "pending") =>
              \A t \in Calls :
                  call'[t].cmd # "emergency" /\ call[t].phase = "idle" =>
                      call'[t].phase = "idle"]_vars

\* C15: when the emergency command settles, by success or by failure, the
\* dispatcher resumes the dequeue by itself: after the step that settles it,
\* each command in the queue (submitted while the emergency was in progress)
\* has been dequeued, or is still queued behind a command that is executing.
\* (Stated for a connected client.)
C15_ResumesAfterEmergency ==
    [][(isConnected /\ \E e \in EmergenciesInProgress : call'[e].promise # "pending") =>
           \A t \in Range(commandQueue) :
               \/ call'[t].phase \in {"notconn", "start"}
               \/ t \in Range(commandQueue') /\ isExecuting']_vars

\* commands taken from the queue that have been sent and have not settled
SentUnsettled ==
    {t \in Calls : /\ call[t].cmd \notin {"none", "emergency"}
                   /\ call[t].sends > 0
                   /\ call[t].promise = "pending"}

\* C16: commands settle in dequeue order, whatever the interleaving of
\* submissions, priority submissions, emergency() calls, replies and timeouts:
\* a command is first sent only after the command dequeued before it has
\* settled, so no two commands are sent and unsettled at once; and the
\* non-priority commands leave the queue in the order of their submission
\* (the calls are numbered in that order).
C16_SettleInDequeueOrder ==
    /\ Cardinality(SentUnsettled) <= 1
    /\ \A a, b \in Calls :
           /\ a < b /\ call[a].cmd = "land" /\ call[b].cmd = "land"
           /\ call[b].phase # "idle"
           => call[a].phase # "idle" \/ call[a].cleared # "none"

\* C17: whenever control is back at the event loop (no promise continuation
\* is waiting to run), the queue is not empty and no emergency() call is in
\* progress, a command is executing: #isExecuting is set and the #sendCommand
\* loop of a command taken from the queue is under way.
C17_NeverIdleWithQueue ==
    ~MicrotasksPending /\ commandQueue # <<>> /\ EmergenciesInProgress = {} =>
        /\ isExecuting
        /\ \E t \in Running(State) : call[t].cmd # "emergency"

\* a command has settled and, with no further submission, the next one has
\* been taken from the queue and sent while a third one waits
C17_Witness ==
    /\ ~MicrotasksPending /\ commandQueue # <<>> /\ EmergenciesInProgress = {}
    /\ \E a, b \in Calls :
           /\ call[a].cmd = "land" /\ Settled(a) /\ call[a].sends > 0
           /\ call[b].cmd = "land" /\ call[b].phase = "wait"
           /\ nCalls = QueueCalls

\* C18: a reply datagram settles at most one outstanding attempt: in no step
\* do the waiting attempts of two different commands both take a reply as their
\* response and resolve the promises of their commands.
C18_ReplySettlesOneAttempt ==
    [][Cardinality({t \in Calls :
                       /\ call[t].phase = "wait"
                       /\ call'[t].last = "success"
                       /\ call'[t].promise = "resolved"}) <= 1]_vars

\* the payload holds ASCII bytes only
AsciiOnly(bytes) == \A i \in 1..Len(bytes) : bytes[i] < 128

\* C19: a reply is classified as success exactly when its payload is
\* ASCII-only and its trimmed content is not empty and is not 'error' in any
\* letter case; every other reply is classified as non-success.
C19_ClassifiedAsClaimed ==
    \A t \in Calls :
        call[t].last \in {"success", "nonsuccess"} =>
            (call[t].last = "success" <=>
                 /\ AsciiOnly(datagram)
                 /\ trim(toString(datagram)) # <<>>
                 /\ toLowerCase(trim(toString(datagram))) # ErrorToken)

\* the 'frame' events emitted while the generator has been subscribed
EmittedWhileSubscribed ==
    IF gen.pc = "unstarted" THEN <<>>
    ELSE SubSeq(frames, gen.from + 1, IF gen.pc = "done" THEN gen.to ELSE Len(frames))

\* C20: streamFrames() yields every frame emitted while it is subscribed
\* exactly once and in emission order (what it has yielded and what it holds
\* are, in order, the frames emitted since it subscribed); it never ends
\* with a frame unyielded; and, the consumer pulling, it ends once the
\* decoder is inactive (ffmpegEnabled false) and its queue has drained.
C20_StreamFrames ==
    /\ [](gen.yielded \o gen.queue = EmittedWhileSubscribed)
    /\ [](gen.pc = "done" => gen.queue = <<>>)
    /\ (~ffmpegEnabled ~> gen.pc = "done")

\* the generator has yielded two frames and has ended, after the decoder's
\* exit and with the whole stream fed
C20_Witness ==
    /\ gen.pc = "done"
    /\ Len(gen.yielded) >= 2
    /\ gen.yielded = frames
    /\ ~ffmpegEnabled
    /\ fed = Len(stream)

\* the decoder process spawned by the most recent startFfmpegDecoder() call
MostRecent == Len(processes)

\* C21: ffmpegEnabled is true whenever the decoder process started by the
\* most recent startFfmpegDecoder() call is still running (it has not been
\* stopped and has not exited), and at most one decoder process is running
\* at a time.  Stated for a connected client.
C21_EnabledWhileRunning ==
    isConnected =>
        /\ (MostRecent > 0 /\ processes[MostRecent] = "running") => ffmpegEnabled
        /\ Cardinality({p \in 1..Len(processes) : processes[p] = "running"}) <= 1

\* a stopVideo() call completes in the step: the promise of its 'streamoff'
\* task resolves and stopVideo() goes on after its await
StopVideoCompletes ==
    \E t \in Calls :
        /\ call[t].cmd = "streamoff"
        /\ call[t].promise = "pending"
        /\ call'[t].cmd = "streamoff"
        /\ call'[t].promise = "resolved"

\* C22: when stopVideo() has completed the video is recorded as stopped:
\* videoConnected is false.
C22_StopVideoRecordsStopped ==
    [][StopVideoCompletes => ~videoConnected']_vars

====
